---- MODULE Spec2Model ----
(***************************************************************************)
(* Model of bot.py: the validated fields (Name, Phone, Birthday), Record,  *)
(* AddressBook with get_upcoming_birthdays, and the command handlers that  *)
(* main() dispatches to.                                                   *)
(*                                                                         *)
(* A Python str is a sequence of characters; a character is a one-element  *)
(* TLA+ string, except the Arabic-Indic digits U+0660..U+0669, which are   *)
(* written "U+066n".  Text printed by a command is a sequence of pieces    *)
(* whose concatenation is the printed string.                              *)
(***************************************************************************)
EXTENDS Integers, Sequences, FiniteSets, TLC

VARIABLES book, last, raw, made, today, upcoming

vars == <<book, last, raw, made, today, upcoming>>

-----------------------------------------------------------------------------
(* Characters and the classes the regular expressions of bot.py use.       *)

AsciiDigits == <<"0", "1", "2", "3", "4", "5", "6", "7", "8", "9">>

ArabicDigits ==
    <<"U+0660", "U+0661", "U+0662", "U+0663", "U+0664",
      "U+0665", "U+0666", "U+0667", "U+0668", "U+0669">>

Range(s) == {s[i] : i \in 1..Len(s)}

IsAsciiDigit(c) == c \in Range(AsciiDigits)

\* \d of a str pattern: any Unicode decimal digit, not only 0-9.
IsDigit(c) == c \in Range(AsciiDigits) \cup Range(ArabicDigits)

\* str.isspace as used by str.strip() and str.split().
IsSpace(c) == c \in {" ", "\t"}

\* int() of one decimal digit character.
DigitValue(c) ==
    IF IsAsciiDigit(c)
    THEN (CHOOSE i \in 1..10 : AsciiDigits[i] = c) - 1
    ELSE (CHOOSE i \in 1..10 : ArabicDigits[i] = c) - 1

RECURSIVE IntOf(_)
\* int(s) of a string of decimal digits, leading blanks skipped.
IntOf(s) ==
    IF s = <<>> THEN 0
    ELSE IF IsSpace(s[Len(s)]) THEN IntOf(SubSeq(s, 1, Len(s) - 1))
    ELSE 10 * IntOf(SubSeq(s, 1, Len(s) - 1)) + DigitValue(s[Len(s)])

RECURSIVE LStrip(_)
LStrip(s) == IF s # <<>> /\ IsSpace(s[1]) THEN LStrip(Tail(s)) ELSE s

RECURSIVE RStrip(_)
RStrip(s) ==
    IF s # <<>> /\ IsSpace(s[Len(s)]) THEN RStrip(SubSeq(s, 1, Len(s) - 1)) ELSE s

\* str.strip()
Strip(s) == RStrip(LStrip(s))

\* re.sub(r"\D", "", value)
StripNonDigits(value) == SelectSeq(value, IsDigit)

-----------------------------------------------------------------------------
(* Results of a constructor or method: ok with a value, or the exception. *)

Ok(v) == [ok |-> TRUE, value |-> v, err |-> "", msg |-> ""]

Raise(e, m) == [ok |-> FALSE, value |-> <<>>, err |-> e, msg |-> m]

-----------------------------------------------------------------------------
(* Name *)

Name(value) ==
    IF Strip(value) = <<>>
    THEN Raise("ValueError", "Name is required")
    ELSE Ok(Strip(value))

-----------------------------------------------------------------------------
(* Phone *)

PhoneLen == 10

\* _is_valid_phone with "at least 10 digits" in place of "exactly 10".
IsValidPhoneAtLeast(value) ==
    /\ Len(value) >= PhoneLen
    /\ \A i \in 1..Len(value) : IsDigit(value[i])

\* re.fullmatch(r"\d{10}", value) is not None
IsValidPhone(value) ==
    /\ Len(value) = PhoneLen
    /\ \A i \in 1..Len(value) : IsDigit(value[i])

Phone(value) ==
    LET cleaned == StripNonDigits(value)
    IN  IF ~IsValidPhone(cleaned)
        THEN Raise("ValueError", "Phone number must contain exactly 10 digits")
        ELSE Ok(cleaned)

-----------------------------------------------------------------------------
(* datetime.date arithmetic (proleptic Gregorian calendar) *)

Date(y, m, d) == [year |-> y, month |-> m, day |-> d]

IsLeap(y) == y % 4 = 0 /\ (y % 100 # 0 \/ y % 400 = 0)

DaysInMonth(y, m) ==
    IF m = 2 THEN (IF IsLeap(y) THEN 29 ELSE 28)
    ELSE IF m \in {4, 6, 9, 11} THEN 30 ELSE 31

DaysBeforeYear(y) ==
    (y - 1) * 365 + ((y - 1) \div 4) - ((y - 1) \div 100) + ((y - 1) \div 400)

RECURSIVE DaysBeforeMonth(_, _)
DaysBeforeMonth(y, m) ==
    IF m = 1 THEN 0 ELSE DaysBeforeMonth(y, m - 1) + DaysInMonth(y, m - 1)

\* date.toordinal(): 1 is 0001-01-01
ToOrdinal(dt) == DaysBeforeYear(dt.year) + DaysBeforeMonth(dt.year, dt.month) + dt.day

\* date.fromordinal(n)
FromOrdinal(n) ==
    LET y == CHOOSE yy \in ((n \div 366) + 1)..((n \div 365) + 1) :
                 DaysBeforeYear(yy) < n /\ n <= DaysBeforeYear(yy + 1)
        r == n - DaysBeforeYear(y)
        m == CHOOSE mm \in 1..12 :
                 DaysBeforeMonth(y, mm) < r /\ r <= DaysBeforeMonth(y, mm) + DaysInMonth(y, mm)
    IN  Date(y, m, r - DaysBeforeMonth(y, m))

\* date.weekday(): Monday is 0, Saturday 5, Sunday 6
Weekday(dt) == (ToOrdinal(dt) + 6) % 7

\* date + timedelta(days=n)
AddDays(dt, n) == FromOrdinal(ToOrdinal(dt) + n)

\* (a - b).days
DaysBetween(a, b) == ToOrdinal(a) - ToOrdinal(b)

\* a < b on dates
DateBefore(a, b) == ToOrdinal(a) < ToOrdinal(b)

\* the checks of the date constructor: ValueError unless they pass
ValidDate(y, m, d) ==
    /\ y >= 1 /\ y <= 9999
    /\ m >= 1 /\ m <= 12
    /\ d >= 1 /\ d <= DaysInMonth(y, m)

\* %d and %m of strftime: two digits, zero padded
Fmt2(n) == <<AsciiDigits[(n \div 10) + 1], AsciiDigits[(n % 10) + 1]>>

RECURSIVE FmtInt(_)
\* %Y of strftime: the year in decimal, not padded
FmtInt(n) ==
    IF n < 10 THEN <<AsciiDigits[n + 1]>>
    ELSE FmtInt(n \div 10) \o <<AsciiDigits[(n % 10) + 1]>>

\* strftime("%d.%m.%Y")
Strftime(dt) == Fmt2(dt.day) \o <<".">> \o Fmt2(dt.month) \o <<".">> \o FmtInt(dt.year)

-----------------------------------------------------------------------------
(* Birthday: datetime.strptime(value, "%d.%m.%Y").  strptime turns the     *)
(* format into the regular expression                                     *)
(*   (?P<d>3[0-1]|[1-2]\d|0[1-9]|[1-9]| [1-9])\.                           *)
(*   (?P<m>1[0-2]|0[1-9]|[1-9])\.(?P<Y>\d\d\d\d)                           *)
(* matches it at the start of the string, rejects text left over after    *)
(* the match, and builds the date from int() of the three groups.         *)

OneToNine == {"1", "2", "3", "4", "5", "6", "7", "8", "9"}

\* %d
ReDay(t) ==
    \/ Len(t) = 2 /\ t[1] = "3" /\ t[2] \in {"0", "1"}
    \/ Len(t) = 2 /\ t[1] \in {"1", "2"} /\ IsDigit(t[2])
    \/ Len(t) = 2 /\ t[1] = "0" /\ t[2] \in OneToNine
    \/ Len(t) = 1 /\ t[1] \in OneToNine
    \/ Len(t) = 2 /\ t[1] = " " /\ t[2] \in OneToNine

\* %m
ReMonth(t) ==
    \/ Len(t) = 2 /\ t[1] = "1" /\ t[2] \in {"0", "1", "2"}
    \/ Len(t) = 2 /\ t[1] = "0" /\ t[2] \in OneToNine
    \/ Len(t) = 1 /\ t[1] \in OneToNine

\* %Y
ReYear(t) == Len(t) = 4 /\ \A i \in 1..4 : IsDigit(t[i])

\* The matches of the whole expression at the start of s: <<i, j>> where the
\* day is s[1..i], the month s[i+2..j] and the year s[j+2..j+5].
StrptimeMatches(s) ==
    {p \in (1..2) \X (3..5) :
        /\ p[2] + 5 <= Len(s)
        /\ p[2] >= p[1] + 2
        /\ ReDay(SubSeq(s, 1, p[1]))
        /\ s[p[1] + 1] = "."
        /\ ReMonth(SubSeq(s, p[1] + 2, p[2]))
        /\ s[p[2] + 1] = "."
        /\ ReYear(SubSeq(s, p[2] + 2, p[2] + 5))}

Strptime(s) ==
    IF StrptimeMatches(s) = {}
    THEN Raise("ValueError", "time data does not match format")
    ELSE LET p == CHOOSE q \in StrptimeMatches(s) : TRUE
             d == IntOf(SubSeq(s, 1, p[1]))
             m == IntOf(SubSeq(s, p[1] + 2, p[2]))
             y == IntOf(SubSeq(s, p[2] + 2, p[2] + 5))
         IN  IF Len(s) # p[2] + 5
             THEN Raise("ValueError", "unconverted data remains")
             ELSE IF ~ValidDate(y, m, d)
             THEN Raise("ValueError", "day or year is out of range")
             ELSE Ok(Date(y, m, d))

Birthday(value) ==
    LET parsed == Strptime(value)
    IN  IF parsed.ok THEN parsed
        ELSE Raise("ValueError", "Invalid date format. Use DD.MM.YYYY. Error: " \o parsed.msg)

\* Birthday.__str__
BirthdayStr(b) == Strftime(b)

-----------------------------------------------------------------------------
(* Record.  birthday is <<>> for None and <<date>> when set; id stands for *)
(* the identity of the Python object.                                      *)

\* Record.__init__, given the identity of the new object
Record(name, id) ==
    LET n == Name(name)
    IN  IF ~n.ok THEN [res |-> n, rec |-> <<>>]
        ELSE [res |-> Ok(<<>>),
              rec |-> [name |-> n.value, phones |-> <<>>, birthday |-> <<>>, id |-> id]]

\* The first position of phones whose value is the cleaned phone, 0 for None.
find_phone(rec, phone) ==
    LET cleaned == StripNonDigits(phone)
        hits == {i \in 1..Len(rec.phones) : rec.phones[i] = cleaned}
    IN  IF hits = {} THEN 0 ELSE CHOOSE i \in hits : \A j \in hits : i <= j

\* list.remove that drops every entry equal to the one at position i.
ListRemoveEqual(phones, i) ==
    LET Other(x) == x # phones[i] IN SelectSeq(phones, Other)

\* list.remove of the object at position i
ListRemove(phones, i) == SubSeq(phones, 1, i - 1) \o SubSeq(phones, i + 1, Len(phones))

add_phone(rec, phone) ==
    LET p == Phone(phone)
    IN  IF ~p.ok THEN [res |-> p, rec |-> rec]
        ELSE [res |-> Ok(<<>>), rec |-> [rec EXCEPT !.phones = Append(@, p.value)]]

remove_phone(rec, phone) ==
    LET i == find_phone(rec, phone)
    IN  IF i = 0 THEN [res |-> Raise("ValueError", "Phone not found"), rec |-> rec]
        ELSE [res |-> Ok(<<>>), rec |-> [rec EXCEPT !.phones = ListRemove(@, i)]]

\* edit_phone that stores the cleaned new number before it validates it.
edit_phone_unvalidated(rec, old_phone, new_phone) ==
    LET i == find_phone(rec, old_phone)
        p == Phone(new_phone)
    IN  IF i = 0 THEN [res |-> Raise("ValueError", "Phone not found"), rec |-> rec]
        ELSE [res |-> IF p.ok THEN Ok(<<>>) ELSE p,
              rec |-> [rec EXCEPT !.phones[i] = StripNonDigits(new_phone)]]

edit_phone(rec, old_phone, new_phone) ==
    LET i == find_phone(rec, old_phone)
        p == Phone(new_phone)
    IN  IF i = 0 THEN [res |-> Raise("ValueError", "Phone not found"), rec |-> rec]
        ELSE IF ~p.ok THEN [res |-> p, rec |-> rec]
        ELSE [res |-> Ok(<<>>), rec |-> [rec EXCEPT !.phones[i] = p.value]]

add_birthday(rec, birthday) ==
    LET b == Birthday(birthday)
    IN  IF ~b.ok THEN [res |-> b, rec |-> rec]
        ELSE [res |-> Ok(<<>>), rec |-> [rec EXCEPT !.birthday = <<b.value>>]]

RECURSIVE JoinStr(_, _)
\* sep.join(parts)
JoinStr(parts, sep) ==
    IF parts = <<>> THEN <<>>
    ELSE IF Len(parts) = 1 THEN parts[1]
    ELSE parts[1] \o sep \o JoinStr(Tail(parts), sep)

\* Record.__str__
RecordStr(rec) ==
    <<"Contact name: ">> \o rec.name \o <<", phones: ">>
        \o JoinStr(rec.phones, <<"; ">>)
        \o (IF rec.birthday # <<>>
            THEN <<", birthday: ">> \o BirthdayStr(rec.birthday[1])
            ELSE <<>>)

-----------------------------------------------------------------------------
(* AddressBook: the dict data, kept as the sequence of its items in        *)
(* insertion order.                                                        *)

KeyIndex(data, key) ==
    IF \E i \in 1..Len(data) : data[i].key = key
    THEN CHOOSE i \in 1..Len(data) : data[i].key = key
    ELSE 0

\* data[key] = rec
DictSet(data, key, rec) ==
    IF KeyIndex(data, key) = 0
    THEN Append(data, [key |-> key, rec |-> rec])
    ELSE [data EXCEPT ![KeyIndex(data, key)].rec = rec]

\* del data[key]
DictDel(data, key) == ListRemove(data, KeyIndex(data, key))

add_record(data, rec) == DictSet(data, rec.name, rec)

\* data.get(name): <<>> for None, else <<record>>
find(data, name) ==
    IF KeyIndex(data, name) = 0 THEN <<>> ELSE <<data[KeyIndex(data, name)].rec>>

delete(data, name) ==
    IF KeyIndex(data, name) # 0 THEN DictDel(data, name) ELSE data

\* The identity of a newly created object: different from every live record.
NewId(data) ==
    CHOOSE n \in 1..(Len(data) + 1) :
        /\ \A i \in 1..Len(data) : data[i].rec.id # n
        /\ \A m \in 1..(n - 1) : \E i \in 1..Len(data) : data[i].rec.id = m

-----------------------------------------------------------------------------
(* AddressBook.get_upcoming_birthdays *)

\* date.replace(year=y): ValueError when the day does not exist in year y
ReplaceYear(d, y) ==
    IF ValidDate(y, d.month, d.day) THEN Ok(Date(y, d.month, d.day))
    ELSE Raise("ValueError", "day is out of range for month")

\* try replace(year=y) except ValueError: replace(year=y, day=28)
BirthdayInYear(d, y) ==
    IF ReplaceYear(d, y).ok THEN ReplaceYear(d, y).value ELSE Date(y, d.month, 28)

\* birthday_this_year after the "if birthday_this_year < today" block
NextBirthday(d, t) ==
    IF DateBefore(BirthdayInYear(d, t.year), t)
    THEN BirthdayInYear(d, t.year + 1)
    ELSE BirthdayInYear(d, t.year)

\* The window with its last day left out: 0 <= days_until_birthday < 7.
InWindowExclusive(days) == 0 <= days /\ days < 7

\* 0 <= days_until_birthday <= 7
InWindow(days) == 0 <= days /\ days <= 7

\* The weekend shift with Saturday moved by one day only.
CongratulationDateOneDay(d) ==
    IF Weekday(d) = 5 \/ Weekday(d) = 6 THEN AddDays(d, 1) ELSE d

CongratulationDate(d) ==
    IF Weekday(d) = 5 THEN AddDays(d, 2)
    ELSE IF Weekday(d) = 6 THEN AddDays(d, 1)
    ELSE d

\* One pass of the loop body: the entries the record appends.
UpcomingOf(rec, t) ==
    IF rec.birthday = <<>> THEN <<>>
    ELSE IF InWindow(DaysBetween(NextBirthday(rec.birthday[1], t), t))
    THEN <<[name |-> rec.name,
            congratulation_date |->
                Strftime(CongratulationDate(NextBirthday(rec.birthday[1], t)))]>>
    ELSE <<>>

RECURSIVE get_upcoming_birthdays(_, _)
get_upcoming_birthdays(data, t) ==
    IF data = <<>> THEN <<>>
    ELSE UpcomingOf(data[1].rec, t) \o get_upcoming_birthdays(Tail(data), t)

-----------------------------------------------------------------------------
(* Inputs *)

Bob == <<"B", "o", "b">>

Al == <<"A", "l">>

NoLast == [op |-> "init", name |-> <<>>, a1 |-> <<>>, a2 |-> <<>>, ok |-> TRUE, out |-> <<>>]

NotMade == [kind |-> "none", res |-> Ok(<<>>)]

\* The number of pieces a raw phone string is put together from.
MaxChunks == 3

PhoneChunks ==
    {<<>>,
     <<"1", "2", "3", "4", "5">>,
     <<"6", "7", "8", "9", "0">>,
     <<"0">>,
     <<"-">>,
     <<"(">>,
     <<" ">>,
     <<"x">>,
     <<"U+0661", "U+0662", "U+0663", "U+0664", "U+0665">>,
     <<"U+0666", "U+0667", "U+0668", "U+0669", "U+0660">>}

RECURSIVE ChunkStrings(_)
ChunkStrings(n) ==
    IF n = 0 THEN {<<>>}
    ELSE {a \o c : a \in ChunkStrings(n - 1), c \in PhoneChunks}

DayTokens ==
    {<<"0", "1">>, <<"1">>, <<" ", "1">>, <<"2", "8">>, <<"2", "9">>, <<"3", "0">>,
     <<"3", "1">>, <<"3", "2">>, <<"0", "0">>, <<"1", "U+0663">>, <<>>, <<"0", "0", "1">>}

MonthTokens ==
    {<<"0", "2">>, <<"2">>, <<"0", "4">>, <<"1", "2">>, <<"1", "3">>, <<"0", "0">>,
     <<"0", "3">>, <<" ", "3">>, <<>>}

YearTokens ==
    {<<"2", "0", "2", "4">>, <<"2", "0", "2", "3">>, <<"1", "9", "0", "0">>,
     <<"0", "0", "0", "0">>, <<"0", "9", "9", "9">>, <<"2", "0", "2">>,
     <<"2", "0", "2", "4", "5">>, <<"2", "0", "2", "4", " ">>, <<"2", "4">>}

DateSeparators == {<<".">>, <<"-">>, <<"/">>}

DateStrings ==
    {d \o s \o m \o s \o y :
        d \in DayTokens, m \in MonthTokens, y \in YearTokens, s \in DateSeparators}

NameStrings == {Bob, <<" ">> \o Bob \o <<" ">>, <<"\t">> \o Al, <<" ", " ">>, <<>>}

FieldInputs == ChunkStrings(MaxChunks) \cup DateStrings \cup NameStrings

-----------------------------------------------------------------------------
(* The field constructors applied to one input string. *)

InitFields ==
    /\ raw \in FieldInputs
    /\ made = NotMade
    /\ book = <<>>
    /\ last = NoLast
    /\ today = Date(2025, 3, 10)
    /\ upcoming = <<>>

MakeName ==
    /\ made.kind = "none"
    /\ made' = [kind |-> "Name", res |-> Name(raw)]
    /\ UNCHANGED <<book, last, raw, today, upcoming>>

MakePhone ==
    /\ made.kind = "none"
    /\ made' = [kind |-> "Phone", res |-> Phone(raw)]
    /\ UNCHANGED <<book, last, raw, today, upcoming>>

MakeBirthday ==
    /\ made.kind = "none"
    /\ made' = [kind |-> "Birthday", res |-> Birthday(raw)]
    /\ UNCHANGED <<book, last, raw, today, upcoming>>

NextFields == MakeName \/ MakePhone \/ MakeBirthday

SpecFields == InitFields /\ [][NextFields]_vars

-----------------------------------------------------------------------------
(* get_upcoming_birthdays on a book of two records, on a day the clock     *)
(* gives.                                                                  *)

\* The number of days after FirstToday that datetime.today() ranges over.
TodaySpan == 480

FirstToday == Date(2023, 12, 15)

Todays == {AddDays(FirstToday, n) : n \in 0..TodaySpan}

\* Birthdays entered as text: day 1 to 31 of every month of a leap year.
BirthdayTexts ==
    {Strftime(Date(2000, m, d)) : m \in 1..12, d \in 1..31}

ValidBirthdayTexts == {t \in BirthdayTexts : Birthday(t).ok}

\* Record(name) followed by add_birthday(text) when a text is given.
RecordWith(name, id, texts) ==
    IF texts = <<>> THEN Record(name, id).rec
    ELSE add_birthday(Record(name, id).rec, texts[1]).rec

UpcomingBooks ==
    {add_record(add_record(<<>>, RecordWith(Bob, 1, b)), RecordWith(Al, 2, a)) :
        b \in {<<>>} \cup {<<t>> : t \in ValidBirthdayTexts},
        a \in {<<>>, <<Strftime(Date(1999, 1, 1))>>}}

InitUpcoming ==
    /\ book \in UpcomingBooks
    /\ today \in Todays
    /\ upcoming = <<>>
    /\ last = NoLast
    /\ raw = <<>>
    /\ made = NotMade

GetUpcoming ==
    /\ last.op = "init"
    /\ upcoming' = get_upcoming_birthdays(book, today)
    /\ last' = [NoLast EXCEPT !.op = "get_upcoming_birthdays"]
    /\ UNCHANGED <<book, today, raw, made>>

NextUpcoming == GetUpcoming

SpecUpcoming == InitUpcoming /\ [][NextUpcoming]_vars

-----------------------------------------------------------------------------
(* Calls on the AddressBook and on the records it holds.                   *)

TenDigits == <<"1", "2", "3", "4", "5", "6", "7", "8", "9", "0">>

Dashed == <<"1", "2", "3", "-", "4", "5", "6", "-", "7", "8", "9", "0">>

OtherDigits == <<"0", "9", "8", "7", "6", "5", "4", "3", "2", "1">>

ElevenDigits == TenDigits \o <<"1">>

ThreeDigits == <<"1", "2", "3">>

StrictBirthday == <<"1", "5", ".", "0", "3", ".", "2", "0", "0", "0">>

LaxBirthday == <<"1", ".", "4", ".", "2", "0", "2", "4">>

BadBirthday == <<"3", "1", ".", "0", "4", ".", "2", "0", "2", "4">>

Called(op, name, a1, a2, res) ==
    [op |-> op, name |-> name, a1 |-> a1, a2 |-> a2, ok |-> res.ok,
     out |-> IF res.ok THEN <<>> ELSE <<res.msg>>]

\* book.add_record(Record(name))
AddRecord(name) ==
    LET r == Record(name, NewId(book))
    IN  /\ book' = IF r.res.ok THEN add_record(book, r.rec) ELSE book
        /\ last' = Called("add_record", name, <<>>, <<>>, r.res)
        /\ UNCHANGED <<today, upcoming, raw, made>>

\* book.delete(name)
Delete(name) ==
    /\ book' = delete(book, name)
    /\ last' = Called("delete", name, <<>>, <<>>, Ok(<<>>))
    /\ UNCHANGED <<today, upcoming, raw, made>>

\* A method of the record stored under key in the book has run.
Mutated(op, key, a1, a2, r) ==
    /\ book' = [book EXCEPT ![KeyIndex(book, key)].rec = r.rec]
    /\ last' = Called(op, key, a1, a2, r.res)
    /\ UNCHANGED <<today, upcoming, raw, made>>

\* book.find(key).add_phone(phone), while the list stays within max entries
AddPhone(key, phone, max) ==
    /\ find(book, key) # <<>>
    /\ Len(add_phone(find(book, key)[1], phone).rec.phones) <= max
    /\ Mutated("add_phone", key, phone, <<>>, add_phone(find(book, key)[1], phone))

\* book.find(key).remove_phone(phone)
RemovePhone(key, phone) ==
    /\ find(book, key) # <<>>
    /\ Mutated("remove_phone", key, phone, <<>>, remove_phone(find(book, key)[1], phone))

\* book.find(key).edit_phone(old_phone, new_phone)
EditPhone(key, old_phone, new_phone) ==
    /\ find(book, key) # <<>>
    /\ Mutated("edit_phone", key, old_phone, new_phone,
               edit_phone(find(book, key)[1], old_phone, new_phone))

\* book.find(key).add_birthday(birthday)
AddBirthday(key, birthday) ==
    /\ find(book, key) # <<>>
    /\ Mutated("add_birthday", key, birthday, <<>>, add_birthday(find(book, key)[1], birthday))

-----------------------------------------------------------------------------
(* A book that records are added to and deleted from, and whose records    *)
(* are changed.                                                            *)

\* The longest phone list a record of the book is given.
MaxBookPhones == 2

RawNames == {Bob, <<" ">> \o Bob \o <<" ">>, Al, <<" ">>}

BookPhones == {Dashed, ElevenDigits, ThreeDigits}

BookBirthdays == {StrictBirthday, BadBirthday}

Init ==
    /\ book = <<>>
    /\ last = NoLast
    /\ today = Date(2025, 3, 10)
    /\ upcoming = <<>>
    /\ raw = <<>>
    /\ made = NotMade

Next ==
    \/ \E n \in RawNames : AddRecord(n)
    \/ \E n \in RawNames : Delete(n)
    \/ \E k \in RawNames, p \in BookPhones : AddPhone(k, p, MaxBookPhones)
    \/ \E k \in RawNames, p \in BookPhones : RemovePhone(k, p)
    \/ \E k \in RawNames, p, q \in BookPhones : EditPhone(k, p, q)
    \/ \E k \in RawNames, b \in BookBirthdays : AddBirthday(k, b)

Spec == Init /\ [][Next]_vars

-----------------------------------------------------------------------------
(* One record, created by Record("Bob") and held in a book, and the calls  *)
(* of its methods.                                                         *)

\* The longest phone list the record is given.
MaxPhones == 3

RecordPhones == {TenDigits, Dashed, OtherDigits, ElevenDigits, ThreeDigits}

RecordBirthdays == {StrictBirthday, LaxBirthday, BadBirthday}

InitRecord ==
    /\ book = add_record(<<>>, Record(Bob, 1).rec)
    /\ last = NoLast
    /\ today = Date(2025, 3, 10)
    /\ upcoming = <<>>
    /\ raw = <<>>
    /\ made = NotMade

NextRecord ==
    \/ \E p \in RecordPhones : AddPhone(Bob, p, MaxPhones)
    \/ \E p \in RecordPhones : RemovePhone(Bob, p)
    \/ \E p, q \in RecordPhones : EditPhone(Bob, p, q)
    \/ \E b \in RecordBirthdays : AddBirthday(Bob, b)

SpecRecord == InitRecord /\ [][NextRecord]_vars

-----------------------------------------------------------------------------
(* The command layer: parse_input, the handlers and the loop of main.      *)

UpperLetters ==
    <<"A", "B", "C", "D", "E", "F", "G", "H", "I", "J", "K", "L", "M",
      "N", "O", "P", "Q", "R", "S", "T", "U", "V", "W", "X", "Y", "Z">>

LowerLetters ==
    <<"a", "b", "c", "d", "e", "f", "g", "h", "i", "j", "k", "l", "m",
      "n", "o", "p", "q", "r", "s", "t", "u", "v", "w", "x", "y", "z">>

\* str.lower()
Lower(s) ==
    [i \in 1..Len(s) |->
        IF s[i] \in Range(UpperLetters)
        THEN LowerLetters[CHOOSE k \in 1..26 : UpperLetters[k] = s[i]]
        ELSE s[i]]

\* The length of the run of characters that are not blank at the start of s.
WordLen(s) ==
    IF \E i \in 1..Len(s) : IsSpace(s[i])
    THEN (CHOOSE i \in 1..Len(s) : IsSpace(s[i]) /\ \A j \in 1..(i - 1) : ~IsSpace(s[j])) - 1
    ELSE Len(s)

RECURSIVE Split(_)
\* str.split()
Split(s) ==
    IF LStrip(s) = <<>> THEN <<>>
    ELSE <<SubSeq(LStrip(s), 1, WordLen(LStrip(s)))>>
            \o Split(SubSeq(LStrip(s), WordLen(LStrip(s)) + 1, Len(LStrip(s))))

parse_input(user_input) ==
    LET parts == Split(user_input)
    IN  [command |-> IF parts # <<>> THEN Lower(Strip(parts[1])) ELSE <<>>,
         args |-> IF Len(parts) > 1 THEN Tail(parts) ELSE <<>>]

\* What the decorator input_error returns for an exception of the handler.
input_error(res) ==
    IF res.err = "ValueError" THEN <<res.msg>>
    ELSE IF res.err = "IndexError" THEN <<"Not enough arguments provided.">>
    ELSE IF res.err = "KeyError" THEN <<"Contact not found.">>
    ELSE <<"An error occurred: ", res.msg>>

\* A handler's outcome: the book afterwards, the text returned, and whether
\* the text is the handler's success message.
Returned(data, ok, out) == [data |-> data, ok |-> ok, out |-> out]

\* The book with the record stored under key replaced by its changed state.
WithRecord(data, key, rec) == [data EXCEPT ![KeyIndex(data, key)].rec = rec]

\* add_contact that builds a new Record for every call.
add_contact_overwrite(args, data) ==
    IF Len(args) < 2 THEN Returned(data, FALSE, <<"Please provide name and phone number.">>)
    ELSE LET created == Record(args[1], NewId(data))
             added == add_phone(created.rec, args[2])
         IN  IF ~created.res.ok THEN Returned(data, FALSE, input_error(created.res))
             ELSE IF ~added.res.ok
             THEN Returned(add_record(data, created.rec), FALSE, input_error(added.res))
             ELSE Returned(add_record(data, added.rec), TRUE,
                           IF find(data, args[1]) = <<>> THEN <<"Contact added.">>
                           ELSE <<"Contact updated.">>)

add_contact(args, data) ==
    IF Len(args) < 2 THEN Returned(data, FALSE, <<"Please provide name and phone number.">>)
    ELSE LET name == args[1]
             phone == args[2]
             found == find(data, name)
             created == Record(name, NewId(data))
             record == IF found = <<>> THEN created.rec ELSE found[1]
             data1 == IF found = <<>> THEN add_record(data, created.rec) ELSE data
             message == IF found = <<>> THEN <<"Contact added.">> ELSE <<"Contact updated.">>
             added == add_phone(record, phone)
         IN  IF found = <<>> /\ ~created.res.ok
             THEN Returned(data, FALSE, input_error(created.res))
             ELSE IF phone = <<>> THEN Returned(data1, TRUE, message)
             ELSE IF ~added.res.ok THEN Returned(data1, FALSE, input_error(added.res))
             ELSE Returned(WithRecord(data1, record.name, added.rec), TRUE, message)

change_contact(args, data) ==
    IF Len(args) < 3
    THEN Returned(data, FALSE, <<"Please provide name, old phone and new phone.">>)
    ELSE LET name == args[1]
             found == find(data, name)
             edited == edit_phone(found[1], args[2], args[3])
         IN  IF found = <<>>
             THEN Returned(data, FALSE, <<"Contact ">> \o name \o <<" not found.">>)
             ELSE IF ~edited.res.ok THEN Returned(data, FALSE, input_error(edited.res))
             ELSE Returned(WithRecord(data, name, edited.rec), TRUE, <<"Contact updated.">>)

show_phone(args, data) ==
    IF Len(args) < 1 THEN Returned(data, FALSE, <<"Please provide contact name.">>)
    ELSE LET name == args[1]
             found == find(data, name)
         IN  IF found = <<>>
             THEN Returned(data, FALSE, <<"Contact ">> \o name \o <<" not found.">>)
             ELSE IF found[1].phones = <<>>
             THEN Returned(data, FALSE, <<"No phone numbers for ">> \o name \o <<".">>)
             ELSE Returned(data, TRUE, name \o <<": ">> \o JoinStr(found[1].phones, <<", ">>))

show_all(args, data) ==
    IF data = <<>> THEN Returned(data, FALSE, <<"No contacts in address book.">>)
    ELSE Returned(data, TRUE,
                  JoinStr([i \in 1..Len(data) |-> RecordStr(data[i].rec)], <<"\n">>))

add_birthday_command(args, data) ==
    IF Len(args) < 2
    THEN Returned(data, FALSE, <<"Please provide name and birthday (DD.MM.YYYY).">>)
    ELSE LET name == args[1]
             found == find(data, name)
             set == add_birthday(found[1], args[2])
         IN  IF found = <<>>
             THEN Returned(data, FALSE, <<"Contact ">> \o name \o <<" not found.">>)
             ELSE IF ~set.res.ok THEN Returned(data, FALSE, input_error(set.res))
             ELSE Returned(WithRecord(data, name, set.rec), TRUE, <<"Birthday added.">>)

show_birthday(args, data) ==
    IF Len(args) < 1 THEN Returned(data, FALSE, <<"Please provide contact name.">>)
    ELSE LET name == args[1]
             found == find(data, name)
         IN  IF found = <<>>
             THEN Returned(data, FALSE, <<"Contact ">> \o name \o <<" not found.">>)
             ELSE IF found[1].birthday = <<>>
             THEN Returned(data, FALSE, <<"No birthday set for ">> \o name \o <<".">>)
             ELSE Returned(data, TRUE, name \o <<": ">> \o BirthdayStr(found[1].birthday[1]))

birthdays(args, data, t) ==
    LET items == get_upcoming_birthdays(data, t)
    IN  IF items = <<>>
        THEN Returned(data, FALSE, <<"No upcoming birthdays in the next week.">>)
        ELSE Returned(data, TRUE,
                      JoinStr(<<<<"Upcoming birthdays:">>>>
                                  \o [i \in 1..Len(items) |->
                                        <<"  ">> \o items[i].name \o <<": ">>
                                            \o items[i].congratulation_date],
                              <<"\n">>))

W_add == <<"a", "d", "d">>

W_change == <<"c", "h", "a", "n", "g", "e">>

W_phone == <<"p", "h", "o", "n", "e">>

W_all == <<"a", "l", "l">>

W_add_birthday == <<"a", "d", "d", "-", "b", "i", "r", "t", "h", "d", "a", "y">>

W_show_birthday == <<"s", "h", "o", "w", "-", "b", "i", "r", "t", "h", "d", "a", "y">>

W_birthdays == <<"b", "i", "r", "t", "h", "d", "a", "y", "s">>

W_hello == <<"h", "e", "l", "l", "o">>

W_help == <<"h", "e", "l", "p">>

W_close == <<"c", "l", "o", "s", "e">>

W_exit == <<"e", "x", "i", "t">>

W_other == <<"l", "i", "s", "t">>

W_ADD == <<"A", "D", "D">>

RECURSIVE SpacedArgs(_)
SpacedArgs(args) == IF args = <<>> THEN <<>> ELSE <<" ">> \o args[1] \o SpacedArgs(Tail(args))

\* A line the user types: the command word and the arguments, one blank apart.
Line(word, args) == word \o SpacedArgs(args)

CmdNames == {Bob, Al}

CmdPhones == {Dashed, ThreeDigits}

CmdNewPhones == {OtherDigits, ThreeDigits}

CmdBirthdayTexts == {StrictBirthday, BadBirthday}

UserInputs ==
    {Line(W_add, <<n, p>>) : n \in CmdNames, p \in CmdPhones}
        \cup {Line(W_add, <<Bob>>), <<" ">> \o Line(W_ADD, <<Al, <<"\t">>, Dashed, Bob>>) \o <<" ">>}
        \cup {Line(W_change, <<n, p, q>>) : n \in CmdNames, p \in CmdPhones, q \in CmdNewPhones}
        \cup {Line(W_change, <<Bob, Dashed>>)}
        \cup {Line(W_phone, a) : a \in {<<>>, <<Bob>>, <<Al>>}}
        \cup {Line(W_all, <<>>)}
        \cup {Line(W_add_birthday, <<n, b>>) : n \in CmdNames, b \in CmdBirthdayTexts}
        \cup {Line(W_add_birthday, <<Al>>)}
        \cup {Line(W_show_birthday, a) : a \in {<<>>, <<Bob>>, <<Al>>}}
        \cup {Line(W_birthdays, <<>>), Line(W_hello, <<>>), Line(W_help, <<>>),
              Line(W_close, <<>>), Line(W_exit, <<>>), Line(W_other, <<Bob>>), <<" ">>, <<>>}

\* The n-th argument, <<>> when there are fewer.
Arg(args, n) == IF Len(args) >= n THEN args[n] ELSE <<>>

\* One pass of the loop of main for a handler that got the arguments.
Handled(op, args, r) ==
    /\ book' = r.data
    /\ last' = [op |-> op, name |-> Arg(args, 1), a1 |-> Arg(args, 2), a2 |-> Arg(args, 3),
                ok |-> r.ok, out |-> r.out]
    /\ UNCHANGED <<today, upcoming, raw, made>>

\* What parse_input returns for the lines the user types.
ParsedInputs == {parse_input(line) : line \in UserInputs}

Running == last.op # "exit"

\* command in ["close", "exit"]: save_data(book) and the loop ends
CmdExit(in) ==
    /\ Running
    /\ in.command \in {W_close, W_exit}
    /\ Handled("exit", <<>>, Returned(book, TRUE, <<"Good bye!">>))

CmdHello(in) ==
    /\ Running
    /\ in.command = W_hello
    /\ Handled("hello", <<>>, Returned(book, TRUE, <<"How can I help you?">>))

\* print(get_help()): the list of commands, of which the heading is kept
CmdHelp(in) ==
    /\ Running
    /\ in.command = W_help
    /\ Handled("help", <<>>, Returned(book, TRUE, <<"Available commands:">>))

CmdAdd(in) ==
    /\ Running
    /\ in.command = W_add
    /\ LET r == add_contact(in.args, book)
       IN  /\ \A i \in 1..Len(r.data) : Len(r.data[i].rec.phones) <= MaxBookPhones
           /\ Handled("add", in.args, r)

CmdChange(in) ==
    /\ Running
    /\ in.command = W_change
    /\ Handled("change", in.args, change_contact(in.args, book))

CmdPhone(in) ==
    /\ Running
    /\ in.command = W_phone
    /\ Handled("phone", in.args, show_phone(in.args, book))

CmdAll(in) ==
    /\ Running
    /\ in.command = W_all
    /\ Handled("all", in.args, show_all(in.args, book))

CmdAddBirthday(in) ==
    /\ Running
    /\ in.command = W_add_birthday
    /\ Handled("add-birthday", in.args, add_birthday_command(in.args, book))

CmdShowBirthday(in) ==
    /\ Running
    /\ in.command = W_show_birthday
    /\ Handled("show-birthday", in.args, show_birthday(in.args, book))

CmdBirthdays(in) ==
    /\ Running
    /\ in.command = W_birthdays
    /\ Handled("birthdays", in.args, birthdays(in.args, book, today))

KnownCommands ==
    {W_close, W_exit, W_hello, W_help, W_add, W_change, W_phone, W_all,
     W_add_birthday, W_show_birthday, W_birthdays}

CmdInvalid(in) ==
    /\ Running
    /\ in.command \notin KnownCommands
    /\ Handled("invalid", <<>>, Returned(book, FALSE, <<"Invalid command.">>))

\* main: load_data() found no file and returned an empty AddressBook
InitCmd ==
    /\ book = <<>>
    /\ last = NoLast
    /\ today = Date(2025, 3, 10)
    /\ upcoming = <<>>
    /\ raw = <<>>
    /\ made = NotMade

NextCmd ==
    \/ \E in \in ParsedInputs : CmdExit(in)
    \/ \E in \in ParsedInputs : CmdHello(in)
    \/ \E in \in ParsedInputs : CmdHelp(in)
    \/ \E in \in ParsedInputs : CmdAdd(in)
    \/ \E in \in ParsedInputs : CmdChange(in)
    \/ \E in \in ParsedInputs : CmdPhone(in)
    \/ \E in \in ParsedInputs : CmdAll(in)
    \/ \E in \in ParsedInputs : CmdAddBirthday(in)
    \/ \E in \in ParsedInputs : CmdShowBirthday(in)
    \/ \E in \in ParsedInputs : CmdBirthdays(in)
    \/ \E in \in ParsedInputs : CmdInvalid(in)

SpecCmd == InitCmd /\ [][NextCmd]_vars

-----------------------------------------------------------------------------
(* Properties *)

\* The record of the book with the given name, when the name is a key.
RecOf(name) == find(book, name)[1]

Names(data) == {data[i].key : i \in 1..Len(data)}

\* The day on which the birthday b is celebrated in year y: b's month and
\* day, and 28 February for a 29 February birthday when y is not a leap year.
OccurrenceIn(b, y) ==
    Date(y, b.month, IF b.month = 2 /\ b.day = 29 /\ ~IsLeap(y) THEN 28 ELSE b.day)

\* The offsets k in 0..7 for which today + k is an occurrence of b (only the
\* occurrences of this year and the next can be that near).
OccurrencesWithinWeek(b) ==
    {ToOrdinal(OccurrenceIn(b, y)) - ToOrdinal(today) : y \in {today.year, today.year + 1}}
        \cap (0..7)

Emitted(name) == \E i \in 1..Len(upcoming) : upcoming[i].name = name

\* C3: get_upcoming_birthdays emits an entry for a record if and only if the
\* record has a birthday whose next occurrence on or after today (29 February
\* taken as 28 February in a year that is not a leap year) is 0 to 7 days
\* after today; a record without a birthday is never emitted, and no record
\* is emitted twice.
C3_EmittedIffWithinWeek ==
    last.op = "get_upcoming_birthdays" =>
        /\ \A n \in Names(book) :
              Emitted(n) <=>
                  /\ RecOf(n).birthday # <<>>
                  /\ OccurrencesWithinWeek(RecOf(n).birthday[1]) # {}
        /\ \A i \in 1..Len(upcoming) : upcoming[i].name \in Names(book)
        /\ \A i, j \in 1..Len(upcoming) : upcoming[i].name = upcoming[j].name => i = j

\* C3 witness: on 25.02.2025 the 29.02.2000 birthday of Bob is emitted for
\* 28.02.2025, and Al, whose birthday is unset or 1 January, is not emitted.
C3_Witness ==
    /\ last.op = "get_upcoming_birthdays"
    /\ today = Date(2025, 2, 25)
    /\ RecOf(Bob).birthday = <<Date(2000, 2, 29)>>
    /\ upcoming =
          <<[name |-> Bob,
             congratulation_date |-> <<"2", "8", ".", "0", "2", ".", "2", "0", "2", "5">>]>>

\* C4: every emitted congratulation date is the candidate birthday date plus
\* 2 days for a Saturday, plus 1 day for a Sunday and the candidate itself
\* otherwise; it is never a Saturday or a Sunday and lies between today and
\* today + 9 days.
C4_CongratulationDate ==
    last.op = "get_upcoming_birthdays" =>
        \A i \in 1..Len(upcoming) :
            LET b == RecOf(upcoming[i].name).birthday[1]
                k == CHOOSE x \in OccurrencesWithinWeek(b) : TRUE
                candidate == ToOrdinal(today) + k
                shift == IF candidate % 7 = 6 THEN 2 ELSE IF candidate % 7 = 0 THEN 1 ELSE 0
                shown == Strptime(upcoming[i].congratulation_date)
            IN  /\ upcoming[i].congratulation_date = Strftime(FromOrdinal(candidate + shift))
                /\ shown.ok
                /\ ToOrdinal(shown.value) % 7 \notin {6, 0}
                /\ ToOrdinal(today) <= ToOrdinal(shown.value)
                /\ ToOrdinal(shown.value) <= ToOrdinal(today) + 9

\* C4 witness: on 10.03.2025 the birthday 15.03, a Saturday, is emitted for
\* Monday 17.03.2025.
C4_Witness ==
    /\ last.op = "get_upcoming_birthdays"
    /\ today = Date(2025, 3, 10)
    /\ RecOf(Bob).birthday = <<Date(2000, 3, 15)>>
    /\ upcoming[1] =
          [name |-> Bob,
           congratulation_date |-> <<"1", "7", ".", "0", "3", ".", "2", "0", "2", "5">>]

\* C5: Phone(s) succeeds if and only if removing every character that is not
\* one of 0-9 from s leaves exactly 10 characters, and the stored value is
\* then that string of 10 ASCII digits.
C5_PhoneIffTenAsciiDigits ==
    made.kind = "Phone" =>
        /\ made.res.ok <=> Len(SelectSeq(raw, IsAsciiDigit)) = 10
        /\ made.res.ok =>
              /\ made.res.value = SelectSeq(raw, IsAsciiDigit)
              /\ \A i \in 1..Len(made.res.value) : IsAsciiDigit(made.res.value[i])

\* raw is DD.MM.YYYY: two digits, a dot, two digits, a dot, four digits,
\* naming a day that exists.
IsStrictDate(s) ==
    /\ Len(s) = 10
    /\ s[3] = "." /\ s[6] = "."
    /\ \A i \in {1, 2, 4, 5, 7, 8, 9, 10} : IsAsciiDigit(s[i])
    /\ ValidDate(IntOf(SubSeq(s, 7, 10)), IntOf(SubSeq(s, 4, 5)), IntOf(SubSeq(s, 1, 2)))

\* C8: Birthday(raw) succeeds if and only if raw is exactly a 2-digit day, a
\* dot, a 2-digit month, a dot and a 4-digit year naming a valid calendar
\* date; every other input fails with a validation error.
C8_BirthdayIffStrictDate ==
    made.kind = "Birthday" => (made.res.ok <=> IsStrictDate(raw))

PhoneError == <<"Phone number must contain exactly 10 digits">>

RecordOps == {"add_phone", "remove_phone", "edit_phone", "add_birthday"}

\* C1: a call of add_phone, remove_phone, edit_phone or add_birthday that
\* raises leaves the phone list and the birthday of the record as they were;
\* edit_phone(old, new) with old in the list and new not a valid phone raises
\* the validation error.
C1_FailedCallLeavesRecord ==
    [][/\ (last'.op \in RecordOps /\ ~last'.ok) =>
              find(book', Bob)[1] = find(book, Bob)[1]
       /\ (/\ last'.op = "edit_phone"
           /\ find_phone(find(book, Bob)[1], last'.a1) # 0
           /\ ~Phone(last'.a2).ok) =>
              /\ ~last'.ok
              /\ last'.out = PhoneError
              /\ find(book', Bob)[1].phones = find(book, Bob)[1].phones]_vars

\* C1 witness: edit_phone has failed on the new number, the old one being in
\* a list of two or more entries.
C1_Witness ==
    /\ last.op = "edit_phone"
    /\ ~last.ok
    /\ last.out = PhoneError
    /\ find_phone(RecOf(Bob), last.a1) # 0
    /\ Len(RecOf(Bob).phones) >= 2
    /\ RecOf(Bob).birthday # <<>>

\* The positions of phones that hold the cleaned form of phone.
Matches(phones, phone) == {i \in 1..Len(phones) : phones[i] = StripNonDigits(phone)}

\* What remove_phone does whether or not the number is there more than once:
\* no match raises "Phone not found" and changes nothing; otherwise the first
\* match is removed and the other entries keep their order.
RemovesFirstMatch(old, new, call) ==
    IF Matches(old, call.a1) = {}
    THEN ~call.ok /\ call.out = <<"Phone not found">> /\ new = old
    ELSE /\ call.ok
         /\ Len(new) = Len(old) - 1
         /\ \E i \in Matches(old, call.a1) :
               /\ \A j \in Matches(old, call.a1) : i <= j
               /\ \A j \in 1..(i - 1) : new[j] = old[j]
               /\ \A j \in i..Len(new) : new[j] = old[j + 1]

\* C6 as stated: remove_phone removes the first match, which is the only one,
\* so that after a successful remove_phone(raw) no entry equals the cleaned
\* raw; the other entries keep their order; no match raises not-found.
C6_RemovedNumberIsGone ==
    [][last'.op = "remove_phone" =>
          /\ RemovesFirstMatch(find(book, Bob)[1].phones, find(book', Bob)[1].phones, last')
          /\ last'.ok => find_phone(find(book', Bob)[1], last'.a1) = 0]_vars

\* C6 amended: remove_phone removes exactly the first match, the other entries
\* keep their order, and the number is gone afterwards exactly when it was in
\* the list once; no match raises not-found and changes nothing.
C6_RemovesOneMatch ==
    [][last'.op = "remove_phone" =>
          /\ RemovesFirstMatch(find(book, Bob)[1].phones, find(book', Bob)[1].phones, last')
          /\ last'.ok =>
                (find_phone(find(book', Bob)[1], last'.a1) = 0
                    <=> Cardinality(Matches(find(book, Bob)[1].phones, last'.a1)) = 1)
          /\ last'.ok =>
                Cardinality(Matches(find(book', Bob)[1].phones, last'.a1))
                    = Cardinality(Matches(find(book, Bob)[1].phones, last'.a1)) - 1]_vars

\* C6 witness: a successful remove_phone has left two entries, one of them
\* the number just removed.
C6_Witness ==
    /\ last.op = "remove_phone"
    /\ last.ok
    /\ Len(RecOf(Bob).phones) = 2
    /\ find_phone(RecOf(Bob), last.a1) # 0
    /\ RecOf(Bob).phones[1] # RecOf(Bob).phones[2]

\* C7: after add_record(Record(n)), for every n that Name accepts, find(n)
\* returns the record that was added; when the book already held a record
\* under that name it is replaced and the number of entries does not grow.
C7_FindReturnsAdded ==
    [][(last'.op = "add_record" /\ Name(last'.name).ok) =>
          /\ last'.ok
          /\ find(book', last'.name) = <<Record(last'.name, NewId(book)).rec>>
          /\ find(book, last'.name) # <<>> => Len(book') = Len(book)]_vars

\* C9: every key of the book maps to a record whose name is the key, the
\* name is not empty and is trimmed, and every phone of every record is a
\* string of exactly 10 digits.
C9_BookWellFormed ==
    \A i \in 1..Len(book) :
        /\ book[i].rec.name = book[i].key
        /\ book[i].key # <<>>
        /\ Strip(book[i].key) = book[i].key
        /\ ~IsSpace(book[i].key[1]) /\ ~IsSpace(book[i].key[Len(book[i].key)])
        /\ \A j \in 1..Len(book) : book[j].key = book[i].key => j = i
        /\ \A j \in 1..Len(book[i].rec.phones) :
              /\ Len(book[i].rec.phones[j]) = 10
              /\ \A k \in 1..10 : IsDigit(book[i].rec.phones[j][k])

\* C9 witness: two records, one of them with two phones and a birthday, after
\* a call that failed.
C9_Witness ==
    /\ Len(book) = 2
    /\ ~last.ok
    /\ \E i \in 1..2 : Len(book[i].rec.phones) = 2 /\ book[i].rec.birthday # <<>>

\* The names of the book with the phone list and the birthday of each.
Content(data) ==
    [n \in Names(data) |->
        [phones |-> find(data, n)[1].phones, birthday |-> find(data, n)[1].birthday]]

\* C2: an add, change or add-birthday command that returns an error message
\* instead of its success message leaves the address book (the contact names,
\* the phone list and the birthday of each) as it was; add with a new name
\* and an invalid phone leaves no new contact in the book.
C2_FailedCommandMutatesNothing ==
    [][(last'.op \in {"add", "change", "add-birthday"} /\ ~last'.ok) =>
          Content(book') = Content(book)]_vars

\* C10: through the commands a contact name once in the book stays in it, the
\* record object stored under it is never replaced and its phone list never
\* gets shorter; add on an existing name appends the phone to the existing
\* record and reports "Contact updated."; change replaces one entry in place.
C10_CommandsDropNothing ==
    [][/\ \A i \in 1..Len(book) :
              /\ find(book', book[i].key) # <<>>
              /\ find(book', book[i].key)[1].id = book[i].rec.id
              /\ find(book', book[i].key)[1].name = book[i].rec.name
              /\ Len(find(book', book[i].key)[1].phones) >= Len(book[i].rec.phones)
       /\ (last'.op = "add" /\ find(book, last'.name) # <<>> /\ Phone(last'.a1).ok) =>
              /\ last'.out = <<"Contact updated.">>
              /\ find(book', last'.name)[1].phones
                    = Append(find(book, last'.name)[1].phones, Phone(last'.a1).value)
              /\ find(book', last'.name)[1].birthday = find(book, last'.name)[1].birthday
       /\ (last'.op = "change" /\ last'.ok) =>
              \E i \in 1..Len(find(book, last'.name)[1].phones) :
                  find(book', last'.name)[1].phones
                      = [find(book, last'.name)[1].phones EXCEPT ![i] = Phone(last'.a2).value]
      ]_vars

\* C10 witness: add on an existing name has reported "Contact updated." and
\* the record, which has a birthday, now holds two phones.
C10_Witness ==
    /\ last.op = "add"
    /\ last.out = <<"Contact updated.">>
    /\ Len(book) = 2
    /\ Len(RecOf(last.name).phones) = 2
    /\ RecOf(last.name).phones[1] # RecOf(last.name).phones[2]
    /\ RecOf(last.name).birthday # <<>>

====
